---- MODULE Spec2Model ----
(***************************************************************************)
(* Model of the contract-management backend (src/backend/server.js):       *)
(* the two JSON stores, the status derivation, and the HTTP handlers.      *)
(*                                                                         *)
(* Representation of JavaScript values                                     *)
(*   text (title, company, client_name, status) : tuple of characters,     *)
(*        so that toLowerCase() and includes() can be computed;            *)
(*   other strings (notes, contract_type, chat ids) : TLA+ strings;        *)
(*   a date string : [t |-> "date", d |-> n] is the ISO date of day n      *)
(*        (parsed by new Date() as UTC midnight of day n),                 *)
(*        [t |-> "text"] is a non-empty string that is not a date,         *)
(*        [t |-> "empty"] is '';                                           *)
(*   a number or null : [t |-> "num", n |-> k] / [t |-> "null", n |-> 0];  *)
(*   an instant : [day |-> d, ms |-> m], 0 <= m < MsPerDay, standing for   *)
(*        the epoch millisecond d * MsPerDay + m;                          *)
(*   a property of a request body : <<>> when absent, <<v>> when present.  *)
(***************************************************************************)
EXTENDS Integers, Sequences, FiniteSets, TLC

VARIABLES
    contractsFile,    \* contents of contracts.json: the list of contracts
    chatHistoryFile,  \* contents of chat_history.json: chat id -> exchanges
    now,              \* the clock, what new Date() returns
    req,              \* the request served last
    resp,             \* the response given to it
    wrote,            \* the files writeJSON wrote while serving it
    prompt,           \* the messages last sent to the inference endpoint
    issued,           \* history: the ids successful creates have returned
    disk,             \* whether reads and writes of the two files succeed
    inflight,         \* the requests suspended at an await, by slot
    nreq              \* number of requests served

vars == <<contractsFile, chatHistoryFile, now, req, resp, wrote, prompt,
          issued, disk, inflight, nreq>>

(***************************************************************************)
(* Bounds of the model                                                     *)
(***************************************************************************)
\* number of requests served in one behaviour
MaxRequests == 3
\* last calendar day the clock reaches (day 0 is the first)
MaxDay == 0

(***************************************************************************)
(* Program constants                                                       *)
(***************************************************************************)
\* 1000 * 60 * 60 * 24, the divisor of checkContractStatus
MsPerDay == 1000 * 60 * 60 * 24
\* the window of the 'expiring' status, in days
ExpiringDays == 30

(***************************************************************************)
(* JavaScript values                                                       *)
(***************************************************************************)
Absent == <<>>
Some(v) == <<v>>
Has(p) == p # <<>>
Val(p) == p[1]

Null == [t |-> "null", n |-> 0]
Num(k) == [t |-> "num", n |-> k]

DateStr(d) == [t |-> "date", d |-> d]
EmptyDate == [t |-> "empty", d |-> 0]
TextDate == [t |-> "text", d |-> 0]

\* JavaScript truthiness of the values that reach a `!x` or `x || y` test
TruthyText(s) == Len(s) > 0
TruthyStr(s) == s # ""
TruthyDate(d) == d.t # "empty"
TruthyNum(v) == v.t = "num" /\ v.n # 0

active == <<"a", "c", "t", "i", "v", "e">>
expiring == <<"e", "x", "p", "i", "r", "i", "n", "g">>
expired == <<"e", "x", "p", "i", "r", "e", "d">>

(***************************************************************************)
(* Status derivation                                                       *)
(***************************************************************************)
\* new Date(s): the instant a date string denotes, or an Invalid Date
ParseDate(s) ==
    IF s.t = "date" THEN [nan |-> FALSE, day |-> s.d, ms |-> 0]
    ELSE [nan |-> TRUE, day |-> 0, ms |-> 0]

\* Math.floor((endDate - today) / (1000 * 60 * 60 * 24)) for valid dates:
\* floor(((e.day - t.day) * MsPerDay + (e.ms - t.ms)) / MsPerDay)
DaysRemaining(e, t) == (e.day - t.day) + ((e.ms - t.ms) \div MsPerDay)

\* StatusOf with the 30-day boundary taken as exclusive
StatusOfExclusive(end_date, today) ==
    LET e == ParseDate(end_date)
    IN  IF e.nan THEN active
        ELSE IF DaysRemaining(e, today) < 0 THEN expired
        ELSE IF DaysRemaining(e, today) < ExpiringDays THEN expiring
        ELSE active

\* the status checkContractStatus assigns; every comparison with NaN is false
StatusOf(end_date, today) ==
    LET e == ParseDate(end_date)
    IN  IF e.nan THEN active
        ELSE IF DaysRemaining(e, today) < 0 THEN expired
        ELSE IF DaysRemaining(e, today) <= ExpiringDays THEN expiring
        ELSE active

\* checkContractStatus that leaves the status it finds in the contract
checkContractStatusKeep(contract, today) == contract

checkContractStatus(contract, today) ==
    [contract EXCEPT !.status = StatusOf(contract.end_date, today)]

(***************************************************************************)
(* Helpers of the handlers                                                 *)
(***************************************************************************)
Max(S) == CHOOSE m \in S : \A x \in S : x <= m

Ids(contracts) == {contracts[i].id : i \in 1..Len(contracts)}

\* Array.prototype.map(checkContractStatus)
MapStatus(contracts, today) ==
    [i \in 1..Len(contracts) |-> checkContractStatus(contracts[i], today)]

NaN == [nan |-> TRUE, n |-> 0]
Digits == <<"0", "1", "2", "3", "4", "5", "6", "7", "8", "9">>
IsDigit(c) == \E i \in 1..10 : Digits[i] = c
DigitVal(c) == (CHOOSE i \in 1..10 : Digits[i] = c) - 1

RECURSIVE ParseDigits(_, _, _)
ParseDigits(s, i, acc) ==
    IF i > Len(s) \/ ~IsDigit(s[i]) THEN acc
    ELSE ParseDigits(s, i + 1, acc * 10 + DigitVal(s[i]))

\* parseInt(req.params.id): an optional sign, then the longest prefix of
\* digits; NaN when there is no digit (the params drawn have no whitespace)
parseInt(s) ==
    IF Len(s) >= 1 /\ IsDigit(s[1])
        THEN [nan |-> FALSE, n |-> ParseDigits(s, 1, 0)]
    ELSE IF Len(s) >= 2 /\ s[1] = "-" /\ IsDigit(s[2])
        THEN [nan |-> FALSE, n |-> 0 - ParseDigits(s, 2, 0)]
    ELSE IF Len(s) >= 2 /\ s[1] = "+" /\ IsDigit(s[2])
        THEN [nan |-> FALSE, n |-> ParseDigits(s, 2, 0)]
    ELSE NaN

\* c.id === parseInt(req.params.id); NaN === x is false for every x
IdMatches(c, p) == ~p.nan /\ c.id = p.n

\* contracts.findIndex(c => c.id === parseInt(id)), 0 standing for -1
findIndex(contracts, p) ==
    IF \E i \in 1..Len(contracts) : IdMatches(contracts[i], p)
        THEN CHOOSE i \in 1..Len(contracts) :
                /\ IdMatches(contracts[i], p)
                /\ \A j \in 1..(i - 1) : ~IdMatches(contracts[j], p)
    ELSE 0

\* the fields a request body may carry
BodyFields == {"id", "title", "company", "client_name", "contract_type",
               "start_date", "end_date", "salary", "notes", "created_at",
               "status"}

EmptyBody == [f \in BodyFields |-> Absent]

\* { ...contract, ...body }
Merge(contract, body) ==
    [f \in BodyFields |-> IF Has(body[f]) THEN Val(body[f]) ELSE contract[f]]

\* NewId that counts the contracts instead of taking the largest id
NewIdByLength(contracts) == Len(contracts) + 1

\* the id a create assigns
NewId(contracts) ==
    IF Len(contracts) > 0 THEN Max(Ids(contracts)) + 1 ELSE 1

\* MissingRequired that tests only whether each field is present
MissingRequiredPresence(body) ==
    \/ ~Has(body.title)
    \/ ~Has(body.company)
    \/ ~Has(body.client_name)
    \/ ~Has(body.start_date)
    \/ ~Has(body.end_date)

\* the validation of POST /api/contracts
MissingRequired(body) ==
    \/ ~(Has(body.title) /\ TruthyText(Val(body.title)))
    \/ ~(Has(body.company) /\ TruthyText(Val(body.company)))
    \/ ~(Has(body.client_name) /\ TruthyText(Val(body.client_name)))
    \/ ~(Has(body.start_date) /\ TruthyDate(Val(body.start_date)))
    \/ ~(Has(body.end_date) /\ TruthyDate(Val(body.end_date)))

\* the record POST /api/contracts builds, before its status is derived
newContract(contracts, body, today) ==
    [id |-> NewId(contracts),
     title |-> Val(body.title),
     company |-> Val(body.company),
     client_name |-> Val(body.client_name),
     contract_type |->
        IF Has(body.contract_type) /\ TruthyStr(Val(body.contract_type))
            THEN Val(body.contract_type) ELSE "individual",
     start_date |-> Val(body.start_date),
     end_date |-> Val(body.end_date),
     salary |->
        IF Has(body.salary) /\ TruthyNum(Val(body.salary))
            THEN Val(body.salary) ELSE Null,
     notes |->
        IF Has(body.notes) /\ TruthyStr(Val(body.notes))
            THEN Val(body.notes) ELSE "",
     created_at |-> today,
     status |-> active]

(***************************************************************************)
(* Search, alerts and the chat briefing                                    *)
(***************************************************************************)
UpperCase == <<"A", "B", "C", "D", "E", "F", "G", "H", "I", "J", "K", "L", "M",
               "N", "O", "P", "Q", "R", "S", "T", "U", "V", "W", "X", "Y", "Z">>
LowerCase == <<"a", "b", "c", "d", "e", "f", "g", "h", "i", "j", "k", "l", "m",
               "n", "o", "p", "q", "r", "s", "t", "u", "v", "w", "x", "y", "z">>

LowerChar(c) ==
    IF \E i \in 1..Len(UpperCase) : UpperCase[i] = c
        THEN LowerCase[CHOOSE i \in 1..Len(UpperCase) : UpperCase[i] = c]
    ELSE c

\* String.prototype.toLowerCase
toLowerCase(s) == [i \in 1..Len(s) |-> LowerChar(s[i])]

\* String.prototype.includes
includes(s, term) ==
    \E i \in 0..(Len(s) - Len(term)) : SubSeq(s, i + 1, i + Len(term)) = term

\* SearchMatches that compares the title as it is written
SearchMatchesTitleCase(c, searchTerm) ==
    \/ includes(c.title, searchTerm)
    \/ includes(toLowerCase(c.company), searchTerm)
    \/ includes(toLowerCase(c.client_name), searchTerm)
    \/ includes(toLowerCase(c.status), searchTerm)

\* the predicate of the filter of POST /api/search; it reads the status
\* stored in the contract
SearchMatches(c, searchTerm) ==
    \/ includes(toLowerCase(c.title), searchTerm)
    \/ includes(toLowerCase(c.company), searchTerm)
    \/ includes(toLowerCase(c.client_name), searchTerm)
    \/ includes(toLowerCase(c.status), searchTerm)

SearchResults(contracts, searchTerm) ==
    SelectSeq(contracts, LAMBDA c : SearchMatches(c, searchTerm))

\* the alert pushed for a contract whose derived status is not 'active':
\* the status comes from checkContractStatus, which read the clock at
\* statusAt; days_remaining is computed from a second new Date(), daysAt
AlertOf(contract, statusAt, daysAt) ==
    LET updatedContract == checkContractStatus(contract, statusAt)
    IN  [contract_id |-> contract.id,
         title |-> contract.title,
         company |-> contract.company,
         end_date |-> contract.end_date,
         days_remaining |-> DaysRemaining(ParseDate(contract.end_date), daysAt),
         status |-> updatedContract.status,
         message |-> <<"Contract", contract.title, "is", updatedContract.status>>]

\* NeedsAlert that forgets the expired contracts
NeedsAlertExpiringOnly(contract, today) ==
    checkContractStatus(contract, today).status = expiring

NeedsAlert(contract, today) ==
    checkContractStatus(contract, today).status \in {expiring, expired}

\* contracts.forEach of GET /api/alerts; clock[2i - 1] and clock[2i] are
\* the two readings of the clock taken for the i-th contract
RECURSIVE Alerts(_, _)
Alerts(contracts, clock) ==
    IF contracts = <<>> THEN <<>>
    ELSE (IF NeedsAlert(Head(contracts), clock[1])
             THEN <<AlertOf(Head(contracts), clock[1], clock[2])>> ELSE <<>>)
         \o Alerts(Tail(contracts), SubSeq(clock, 3, Len(clock)))

\* formatINR: 'Not specified' for a falsy amount, else the amount in rupees
formatINR(amount) ==
    IF ~TruthyNum(amount) THEN [t |-> "Not specified", n |-> 0]
    ELSE [t |-> "INR", n |-> amount.n]

\* the block of the briefing that describes one contract; it prints the
\* status stored in the contract
BriefingBlock(c) ==
    [id |-> c.id,
     title |-> c.title,
     company |-> c.company,
     client_name |-> c.client_name,
     contract_type |-> c.contract_type,
     status |-> c.status,
     start_date |-> c.start_date,
     end_date |-> c.end_date,
     salary |-> formatINR(c.salary),
     notes |-> IF TruthyStr(c.notes) THEN Some(c.notes) ELSE Absent]

\* contractSummary: the total and one block per contract, in store order
Briefing(contracts) ==
    [total |-> Len(contracts),
     blocks |-> [i \in 1..Len(contracts) |-> BriefingBlock(contracts[i])]]

\* Date.now(): the epoch millisecond of an instant
EpochMs(t) == t.day * MsPerDay + t.ms

\* chat_id || Date.now().toString()
ChatId(chat_id, today) ==
    IF Has(chat_id) /\ TruthyStr(Val(chat_id)) THEN Val(chat_id)
    ELSE ToString(EpochMs(today))

\* AppendExchange that starts the session over with the new exchange
AppendExchangeReplacing(chatHistory, id, exchange) ==
    [k \in (DOMAIN chatHistory) \cup {id} |->
        IF k = id THEN <<exchange>> ELSE chatHistory[k]]

\* chatHistory[currentChatId].push(exchange), creating the session if absent
AppendExchange(chatHistory, id, exchange) ==
    [k \in (DOMAIN chatHistory) \cup {id} |->
        IF k = id
            THEN (IF id \in DOMAIN chatHistory THEN chatHistory[id] ELSE <<>>)
                 \o <<exchange>>
        ELSE chatHistory[k]]

(***************************************************************************)
(* Inputs the requests are drawn from                                      *)
(***************************************************************************)
\* times of day the clock shows: midnight and the last millisecond of the day
TimesOfDay == {0, MsPerDay - 1}

Instants == [day : 0..MaxDay, ms : TimesOfDay]

Later(t, u) == u.day > t.day \/ (u.day = t.day /\ u.ms > t.ms)

\* the sequences of n successive readings of a clock that shows `from`
\* and never goes back
RECURSIVE Readings(_, _)
Readings(n, from) ==
    IF n = 0 THEN {<<>>}
    ELSE UNION {{<<t>> \o r : r \in Readings(n - 1, t)} :
                   t \in {u \in Instants : u = from \/ Later(from, u)}}

BodyFull ==
    [EmptyBody EXCEPT
        !.title = Some(<<"Q", "a">>),
        !.company = Some(<<"C", "o">>),
        !.client_name = Some(<<"A", "l">>),
        !.contract_type = Some("client"),
        !.start_date = Some(DateStr(0)),
        !.end_date = Some(DateStr(31)),
        !.salary = Some(Num(5)),
        !.notes = Some("n")]

BodyMin ==
    [EmptyBody EXCEPT
        !.title = Some(<<"d", "e", "v">>),
        !.company = Some(<<"C", "o">>),
        !.client_name = Some(<<"B", "o">>),
        !.start_date = Some(TextDate),
        !.end_date = Some(DateStr(0)),
        !.salary = Some(Num(0))]

RequiredFields == {"title", "company", "client_name", "start_date", "end_date"}

EmptyOf(f) == IF f \in {"start_date", "end_date"} THEN EmptyDate ELSE <<>>

\* bodies of POST /api/contracts: two complete ones, and BodyFull with one
\* required field left out or sent empty
CreateBodies ==
    {BodyFull, BodyMin}
    \cup {[BodyFull EXCEPT ![f] = Absent] : f \in RequiredFields}
    \cup {[BodyFull EXCEPT ![f] = Some(EmptyOf(f))] : f \in RequiredFields}

\* bodies of PUT /api/contracts/:id
UpdateBodies ==
    {[EmptyBody EXCEPT !.id = Some(2)],
     [EmptyBody EXCEPT !.end_date = Some(DateStr(0)), !.status = Some(active)],
     [EmptyBody EXCEPT !.title = Some(<<"Z">>), !.salary = Some(Num(0))],
     [EmptyBody EXCEPT !.created_at = Some([day |-> 9, ms |-> 0])]}

\* the :id of a request path
IdParams == {<<"1">>, <<"2", "x">>, <<"x">>}

\* the query of POST /api/search
Queries == {Absent, Some(<<"q", "A">>), Some(<<"E", "x", "p">>), Some(expiring)}

\* bodies of POST /api/chat
ChatBodies == [message : {"hi"}, chat_id : {Absent, Some("s1")}]

\* what the inference endpoint does with a request
OllamaOutcomes ==
    {[kind |-> "unreachable", content |-> ""],
     [kind |-> "notok", content |-> ""],
     [kind |-> "ok", content |-> "r1"]}

\* the :chat_id of GET /api/chat/history/:chat_id
ChatParams == {"s1", "0"}

(***************************************************************************)
(* Initial state: both files as initializeFiles creates them               *)
(***************************************************************************)
\* rc: contracts.json can be read; rh: chat_history.json can be read;
\* w: files can be written
Healthy == [rc |-> TRUE, rh |-> TRUE, w |-> TRUE]

Init ==
    /\ contractsFile = <<>>
    /\ chatHistoryFile = <<>>
    /\ now = [day |-> 0, ms |-> 0]
    /\ req = [op |-> "none"]
    /\ resp = [code |-> 0]
    /\ wrote = {}
    /\ prompt = Absent
    /\ issued = {}
    /\ disk = Healthy
    /\ inflight = <<>>
    /\ nreq = 0

\* the bookkeeping of one served request
Serve(request, response, files) ==
    /\ nreq < MaxRequests
    /\ nreq' = nreq + 1
    /\ req' = request
    /\ resp' = response
    /\ wrote' = files
    /\ issued' = IF request.op = "create" /\ response.code = 200
                     THEN issued \cup {response.contract.id}
                  ELSE issued
    /\ UNCHANGED <<disk, inflight>>

\* readJSON that hands out the file even when the read has failed
readJSONIgnoringFailure(file, default, ok) == file

\* readJSON: the parsed file, or the default when the read fails
readJSON(file, default, ok) == IF ok THEN file ELSE default

\* writeJSON: the file after the call; it is left as it was when the write
\* fails, and the call then returns false instead of throwing
writeJSON(file, data, ok) == IF ok THEN data ELSE file

\* the files a handler wrote, given the one it called writeJSON on
Written(name) == IF disk.w THEN {name} ELSE {}

(***************************************************************************)
(* The clock                                                               *)
(***************************************************************************)
Tick ==
    /\ \E t \in Instants : Later(now, t) /\ now' = t
    /\ UNCHANGED <<contractsFile, chatHistoryFile, req, resp, wrote, prompt,
                   issued, disk, inflight, nreq>>

(***************************************************************************)
(* The handlers                                                            *)
(***************************************************************************)
\* GetContracts that saves the statuses it has derived
GetContractsSaving ==
    LET contracts == readJSON(contractsFile, <<>>, disk.rc)
    IN  /\ contractsFile' =
               writeJSON(contractsFile, MapStatus(contracts, now), disk.w)
        /\ Serve([op |-> "list"],
                 [code |-> 200, contracts |-> MapStatus(contracts, now)],
                 Written("contracts"))
        /\ UNCHANGED <<chatHistoryFile, now, prompt>>

\* GET /api/contracts
GetContracts ==
    LET contracts == readJSON(contractsFile, <<>>, disk.rc)
    IN  /\ Serve([op |-> "list"],
                 [code |-> 200, contracts |-> MapStatus(contracts, now)],
                 {})
        /\ UNCHANGED <<contractsFile, chatHistoryFile, now, prompt>>

\* POST /api/contracts
PostContract(body) ==
    /\ IF MissingRequired(body)
          THEN /\ Serve([op |-> "create", body |-> body],
                        [code |-> 400, error |-> "Missing required fields"],
                        {})
               /\ UNCHANGED contractsFile
          ELSE LET contracts == readJSON(contractsFile, <<>>, disk.rc)
                   contractWithStatus ==
                       checkContractStatus(newContract(contracts, body, now), now)
               IN  /\ contractsFile' =
                          writeJSON(contractsFile,
                                    Append(contracts, contractWithStatus),
                                    disk.w)
                   /\ IF disk.w
                         THEN Serve([op |-> "create", body |-> body],
                                    [code |-> 200,
                                     message |-> "Contract created successfully",
                                     contract |-> contractWithStatus,
                                     success |-> TRUE],
                                    Written("contracts"))
                         ELSE Serve([op |-> "create", body |-> body],
                                    [code |-> 500,
                                     error |-> "Failed to save contract"],
                                    Written("contracts"))
    /\ UNCHANGED <<chatHistoryFile, now, prompt>>

\* GET /api/contracts/:id
GetContract(id) ==
    LET contracts == readJSON(contractsFile, <<>>, disk.rc)
        index == findIndex(contracts, parseInt(id))
    IN  /\ IF index = 0
              THEN Serve([op |-> "get", id |-> id],
                         [code |-> 404, error |-> "Contract not found"],
                         {})
              ELSE Serve([op |-> "get", id |-> id],
                         [code |-> 200,
                          contract |->
                              checkContractStatus(contracts[index], now)],
                         {})
        /\ UNCHANGED <<contractsFile, chatHistoryFile, now, prompt>>

\* PUT /api/contracts/:id; the result of writeJSON is not looked at
PutContract(id, body) ==
    LET contracts == readJSON(contractsFile, <<>>, disk.rc)
        index == findIndex(contracts, parseInt(id))
    IN  /\ IF index = 0
              THEN /\ Serve([op |-> "update", id |-> id, body |-> body],
                            [code |-> 404, error |-> "Contract not found"],
                            {})
                   /\ UNCHANGED contractsFile
              ELSE LET updatedContract ==
                           checkContractStatus(
                               Merge(contracts[index], body), now)
                   IN  /\ contractsFile' =
                              writeJSON(contractsFile,
                                        [contracts EXCEPT
                                            ![index] = updatedContract],
                                        disk.w)
                       /\ Serve([op |-> "update", id |-> id, body |-> body],
                                [code |-> 200,
                                 message |-> "Contract updated",
                                 contract |-> updatedContract],
                                Written("contracts"))
        /\ UNCHANGED <<chatHistoryFile, now, prompt>>

\* DeleteContract that answers 404 when no contract has the id
DeleteContractStrict(id) ==
    LET contracts == readJSON(contractsFile, <<>>, disk.rc)
        filtered ==
            SelectSeq(contracts, LAMBDA c : ~IdMatches(c, parseInt(id)))
    IN  /\ contractsFile' = writeJSON(contractsFile, filtered, disk.w)
        /\ IF filtered = contracts
              THEN Serve([op |-> "delete", id |-> id],
                         [code |-> 404, error |-> "Contract not found"],
                         Written("contracts"))
              ELSE Serve([op |-> "delete", id |-> id],
                         [code |-> 200, message |-> "Contract deleted"],
                         Written("contracts"))
        /\ UNCHANGED <<chatHistoryFile, now, prompt>>

\* DELETE /api/contracts/:id; the result of writeJSON is not looked at
DeleteContract(id) ==
    LET contracts == readJSON(contractsFile, <<>>, disk.rc)
        filtered ==
            SelectSeq(contracts, LAMBDA c : ~IdMatches(c, parseInt(id)))
    IN  /\ contractsFile' = writeJSON(contractsFile, filtered, disk.w)
        /\ Serve([op |-> "delete", id |-> id],
                 [code |-> 200, message |-> "Contract deleted"],
                 Written("contracts"))
        /\ UNCHANGED <<chatHistoryFile, now, prompt>>

\* POST /api/search; toLowerCase of a missing query throws, which the
\* handler answers with 500
PostSearch(query) ==
    LET contracts == readJSON(contractsFile, <<>>, disk.rc)
    IN  /\ IF ~Has(query)
              THEN Serve([op |-> "search", query |-> query],
                         [code |-> 500, error |-> "TypeError"],
                         {})
              ELSE LET results ==
                           SearchResults(contracts, toLowerCase(Val(query)))
                   IN  Serve([op |-> "search", query |-> query],
                             [code |-> 200,
                              results |-> results,
                              count |-> Len(results)],
                             {})
        /\ UNCHANGED <<contractsFile, chatHistoryFile, now, prompt>>

\* GET /api/alerts; the clock is read twice for each contract and may
\* advance from one reading to the next
GetAlerts ==
    LET contracts == readJSON(contractsFile, <<>>, disk.rc)
    IN  \E clock \in Readings(2 * Len(contracts), now) :
            LET alerts == Alerts(contracts, clock)
            IN  /\ Serve([op |-> "alerts", clock |-> clock],
                         [code |-> 200, alerts |-> alerts, count |-> Len(alerts)],
                         {})
                /\ now' = IF clock = <<>> THEN now ELSE clock[Len(clock)]
                /\ UNCHANGED <<contractsFile, chatHistoryFile, prompt>>

\* PostChat that opens the session before it calls the inference endpoint
PostChatEager(body, ollama) ==
    LET currentChatId == ChatId(body.chat_id, now)
        chatHistory == readJSON(chatHistoryFile, <<>>, disk.rh)
        opened == IF currentChatId \in DOMAIN chatHistory THEN chatHistory
                  ELSE [k \in (DOMAIN chatHistory) \cup {currentChatId} |->
                           IF k = currentChatId THEN <<>> ELSE chatHistory[k]]
        exchange == [timestamp |-> now,
                     user |-> body.message,
                     bot |-> ollama.content]
    IN  /\ prompt' = Some([system |->
                               Briefing(readJSON(contractsFile, <<>>, disk.rc)),
                           user |-> body.message])
        /\ IF ollama.kind # "ok"
              THEN /\ chatHistoryFile' = writeJSON(chatHistoryFile, opened, disk.w)
                   /\ Serve([op |-> "chat", body |-> body,
                             upstream |-> ollama.kind],
                            [code |-> 500,
                             error |-> "Error communicating with Ollama. Make sure Ollama is running with: ollama serve"],
                            Written("chat_history"))
              ELSE /\ chatHistoryFile' =
                          writeJSON(chatHistoryFile,
                                    AppendExchange(opened, currentChatId, exchange),
                                    disk.w)
                   /\ Serve([op |-> "chat", body |-> body,
                             upstream |-> ollama.kind],
                            [code |-> 200,
                             response |-> ollama.content,
                             chat_id |-> currentChatId,
                             timestamp |-> now],
                            Written("chat_history"))
        /\ UNCHANGED <<contractsFile, now>>

\* POST /api/chat; the result of writeJSON is not looked at
PostChat(body, ollama) ==
    LET currentChatId == ChatId(body.chat_id, now)
        chatHistory == readJSON(chatHistoryFile, <<>>, disk.rh)
        exchange == [timestamp |-> now,
                     user |-> body.message,
                     bot |-> ollama.content]
    IN  /\ prompt' = Some([system |->
                               Briefing(readJSON(contractsFile, <<>>, disk.rc)),
                           user |-> body.message])
        /\ IF ollama.kind # "ok"
              THEN /\ Serve([op |-> "chat", body |-> body,
                             upstream |-> ollama.kind],
                            [code |-> 500,
                             error |-> "Error communicating with Ollama. Make sure Ollama is running with: ollama serve"],
                            {})
                   /\ UNCHANGED chatHistoryFile
              ELSE /\ chatHistoryFile' =
                          writeJSON(chatHistoryFile,
                                    AppendExchange(chatHistory, currentChatId,
                                                   exchange),
                                    disk.w)
                   /\ Serve([op |-> "chat", body |-> body,
                             upstream |-> ollama.kind],
                            [code |-> 200,
                             response |-> ollama.content,
                             chat_id |-> currentChatId,
                             timestamp |-> now],
                            Written("chat_history"))
        /\ UNCHANGED <<contractsFile, now>>

\* GET /api/chat/history/:chat_id
GetChatHistory(chat_id) ==
    LET chatHistory == readJSON(chatHistoryFile, <<>>, disk.rh)
    IN  /\ IF chat_id \notin DOMAIN chatHistory
              THEN Serve([op |-> "history", chat_id |-> chat_id],
                         [code |-> 404, error |-> "Chat history not found"],
                         {})
              ELSE Serve([op |-> "history", chat_id |-> chat_id],
                         [code |-> 200,
                          chat_id |-> chat_id,
                          messages |-> chatHistory[chat_id]],
                         {})
        /\ UNCHANGED <<contractsFile, chatHistoryFile, now, prompt>>

Next ==
    \/ Tick
    \/ GetContracts
    \/ \E body \in CreateBodies : PostContract(body)
    \/ \E id \in IdParams : GetContract(id)
    \/ \E id \in IdParams, body \in UpdateBodies : PutContract(id, body)
    \/ \E id \in IdParams : DeleteContract(id)
    \/ \E query \in Queries : PostSearch(query)
    \/ GetAlerts
    \/ \E body \in ChatBodies, ollama \in OllamaOutcomes : PostChat(body, ollama)
    \/ \E chat_id \in ChatParams : GetChatHistory(chat_id)

Spec == Init /\ [][Next]_vars

(***************************************************************************)
(* Status derivation on its own: one stored contract with any end date,    *)
(* written at midnight today or forty days ago (so that the stored status  *)
(* may be stale), read at any time of day                                  *)
(***************************************************************************)
DayTimes == {0, 1, MsPerDay \div 2, MsPerDay - 1}

EndDates ==
    {DateStr(d) : d \in (0 - 2)..(MaxDay + ExpiringDays + 3)} \cup {TextDate}

StatusInit ==
    /\ now \in [day : 0..MaxDay, ms : DayTimes]
    /\ \E end_date \in EndDates, age \in {0, 40} :
          LET written == [day |-> now.day - age, ms |-> 0]
              body == [BodyFull EXCEPT !.end_date = Some(end_date)]
          IN  contractsFile =
                  <<checkContractStatus(newContract(<<>>, body, written),
                                        written)>>
    /\ chatHistoryFile = <<>>
    /\ req = [op |-> "none"]
    /\ resp = [code |-> 0]
    /\ wrote = {}
    /\ prompt = Absent
    /\ issued = {1}
    /\ disk = Healthy
    /\ inflight = <<>>
    /\ nreq = 0

StatusNext ==
    \/ GetContracts
    \/ \E id \in IdParams : GetContract(id)

SpecStatus == StatusInit /\ [][StatusNext]_vars

(***************************************************************************)
(* The chat sessions on their own, with more messages, replies and ids;    *)
(* "0" is also the id the server generates at the first instant            *)
(***************************************************************************)
ChatBodiesWide ==
    [message : {"hi", "yo"}, chat_id : {Absent, Some(""), Some("s1"), Some("0")}]

OllamaOutcomesWide ==
    OllamaOutcomes \cup {[kind |-> "ok", content |-> "r2"]}

ChatParamsWide == ChatParams \cup {ToString(MsPerDay - 1)}

ChatNext ==
    \/ Tick
    \/ \E body \in ChatBodiesWide, ollama \in OllamaOutcomesWide :
          PostChat(body, ollama)
    \/ \E chat_id \in ChatParamsWide : GetChatHistory(chat_id)

SpecChat == Init /\ [][ChatNext]_vars

(***************************************************************************)
(* The handlers on a disk whose reads and writes may fail.  The clock      *)
(* moves only while GET /api/alerts runs, and fewer bodies are sent.       *)
(***************************************************************************)
DiskStates == [rc : BOOLEAN, rh : BOOLEAN, w : BOOLEAN]

\* the disk starts or stops failing
Fault ==
    /\ \E d \in DiskStates : d # disk /\ disk' = d
    /\ UNCHANGED <<contractsFile, chatHistoryFile, now, req, resp, wrote,
                   prompt, issued, inflight, nreq>>

FaultUpdateBodies ==
    {[EmptyBody EXCEPT !.title = Some(<<"Z">>), !.salary = Some(Num(0))]}

FaultNext ==
    \/ Fault
    \/ GetContracts
    \/ \E body \in {BodyFull, BodyMin} : PostContract(body)
    \/ \E id \in IdParams : GetContract(id)
    \/ \E id \in IdParams, body \in FaultUpdateBodies : PutContract(id, body)
    \/ \E id \in IdParams : DeleteContract(id)
    \/ \E query \in {Some(<<"q", "A">>)} : PostSearch(query)
    \/ GetAlerts
    \/ \E body \in ChatBodies, ollama \in OllamaOutcomes : PostChat(body, ollama)
    \/ \E chat_id \in ChatParams : GetChatHistory(chat_id)

SpecFault == Init /\ [][FaultNext]_vars

(***************************************************************************)
(* Requests in flight together.  A handler gives up control at each await: *)
(* between the read of a store and the write back to it other requests     *)
(* run.  inflight[n] is the n-th request that arrived: what it read, which *)
(* requests had written when it read, and which had when it wrote.  The    *)
(* clock stands still here.                                                *)
(***************************************************************************)
Done(n) == inflight[n].pc = "done"

Finished == {n \in DOMAIN inflight : Done(n)}

\* the store as the file holds it at the moment of the write
heldFresh(n) ==
    IF inflight[n].op = "create" THEN contractsFile ELSE chatHistoryFile

\* the store as the handler holds it in its local variable since its read
held(n) == inflight[n].snapshot

Arrive(request) ==
    /\ nreq < MaxRequests
    /\ nreq' = nreq + 1
    /\ inflight' = Append(inflight, request)

\* POST /api/contracts up to the end of its read of contracts.json
BeginCreate(body) ==
    /\ IF MissingRequired(body)
          THEN /\ Arrive([op |-> "create", body |-> body, snapshot |-> <<>>,
                          sawWritten |-> Finished, pc |-> "done",
                          doneAtWrite |-> {},
                          resp |-> [code |-> 400,
                                    error |-> "Missing required fields"]])
               /\ req' = [op |-> "create", body |-> body]
               /\ resp' = [code |-> 400, error |-> "Missing required fields"]
               /\ wrote' = {}
          ELSE /\ Arrive([op |-> "create", body |-> body,
                          snapshot |-> readJSON(contractsFile, <<>>, disk.rc),
                          sawWritten |-> Finished, pc |-> "read",
                          doneAtWrite |-> {},
                          resp |-> [code |-> 0]])
               /\ UNCHANGED <<req, resp, wrote>>
    /\ UNCHANGED <<contractsFile, chatHistoryFile, now, prompt, issued, disk>>

\* POST /api/contracts from the end of its read to its response
FinishCreate(n) ==
    /\ n \in DOMAIN inflight
    /\ inflight[n].op = "create"
    /\ inflight[n].pc = "read"
    /\ LET contracts == held(n)
           body == inflight[n].body
           contractWithStatus ==
               checkContractStatus(newContract(contracts, body, now), now)
           response ==
               IF disk.w
                  THEN [code |-> 200,
                        message |-> "Contract created successfully",
                        contract |-> contractWithStatus,
                        success |-> TRUE]
                  ELSE [code |-> 500, error |-> "Failed to save contract"]
       IN  /\ contractsFile' =
                  writeJSON(contractsFile, Append(contracts, contractWithStatus),
                            disk.w)
           /\ inflight' = [inflight EXCEPT ![n].pc = "done",
                                           ![n].doneAtWrite = Finished,
                                           ![n].resp = response]
           /\ req' = [op |-> "create", body |-> body]
           /\ resp' = response
           /\ wrote' = Written("contracts")
           /\ issued' = IF disk.w THEN issued \cup {contractWithStatus.id}
                        ELSE issued
    /\ UNCHANGED <<chatHistoryFile, now, prompt, disk, nreq>>

\* POST /api/chat up to the end of its read of chat_history.json
BeginChat(body, ollama) ==
    /\ prompt' = Some([system |->
                           Briefing(readJSON(contractsFile, <<>>, disk.rc)),
                       user |-> body.message])
    /\ IF ollama.kind # "ok"
          THEN /\ Arrive([op |-> "chat", body |-> body, snapshot |-> <<>>,
                          sawWritten |-> Finished, pc |-> "done",
                          doneAtWrite |-> {},
                          resp |-> [code |-> 500,
                                    error |-> "Error communicating with Ollama. Make sure Ollama is running with: ollama serve"]])
               /\ req' = [op |-> "chat", body |-> body,
                          upstream |-> ollama.kind]
               /\ resp' = [code |-> 500,
                           error |-> "Error communicating with Ollama. Make sure Ollama is running with: ollama serve"]
               /\ wrote' = {}
          ELSE /\ Arrive([op |-> "chat",
                          body |-> [message |-> body.message,
                                    chat_id |-> body.chat_id,
                                    bot |-> ollama.content],
                          snapshot |-> readJSON(chatHistoryFile, <<>>, disk.rh),
                          sawWritten |-> Finished, pc |-> "read",
                          doneAtWrite |-> {},
                          resp |-> [code |-> 0]])
               /\ UNCHANGED <<req, resp, wrote>>
    /\ UNCHANGED <<contractsFile, chatHistoryFile, now, issued, disk>>

\* POST /api/chat from the end of its read to its response
FinishChat(n) ==
    /\ n \in DOMAIN inflight
    /\ inflight[n].op = "chat"
    /\ inflight[n].pc = "read"
    /\ LET chatHistory == held(n)
           body == inflight[n].body
           currentChatId == ChatId(body.chat_id, now)
           exchange == [timestamp |-> now,
                        user |-> body.message,
                        bot |-> body.bot]
           response == [code |-> 200,
                        response |-> body.bot,
                        chat_id |-> currentChatId,
                        timestamp |-> now]
       IN  /\ chatHistoryFile' =
                  writeJSON(chatHistoryFile,
                            AppendExchange(chatHistory, currentChatId, exchange),
                            disk.w)
           /\ inflight' = [inflight EXCEPT ![n].pc = "done",
                                           ![n].doneAtWrite = Finished,
                                           ![n].resp = response]
           /\ req' = [op |-> "chat",
                      body |-> [message |-> body.message,
                                chat_id |-> body.chat_id],
                      upstream |-> "ok"]
           /\ resp' = response
           /\ wrote' = Written("chat_history")
    /\ UNCHANGED <<contractsFile, now, prompt, issued, disk, nreq>>

ConcCreateBodies == {BodyFull, BodyMin, EmptyBody}

ConcChatBodies == [message : {"hi", "yo"}, chat_id : {Some("s1")}]

ConcNext ==
    \/ \E body \in ConcCreateBodies : BeginCreate(body)
    \/ \E n \in 1..MaxRequests : FinishCreate(n)
    \/ \E body \in ConcChatBodies, ollama \in OllamaOutcomes :
           BeginChat(body, ollama)
    \/ \E n \in 1..MaxRequests : FinishChat(n)

SpecConc == Init /\ [][ConcNext]_vars

(***************************************************************************)
(* Properties                                                              *)
(***************************************************************************)
\* floor((end_date - t) / 1 day) for the date of day end_day: the whole
\* days between the two, one less when t is past midnight
FloorDays(end_day, t) == (end_day - t.day) - (IF t.ms > 0 THEN 1 ELSE 0)

ExpectedStatus(end_day, t) ==
    IF FloorDays(end_day, t) < 0 THEN expired
    ELSE IF FloorDays(end_day, t) <= 30 THEN expiring
    ELSE active

\* a request was served in this step
Served == nreq' = nreq + 1

\* the number an :id stands for, when it is one
IdNumber(id) == parseInt(id).n
IsNumber(id) == ~parseInt(id).nan

C2_DayBoundaries ==
    (req.op = "list" /\ contractsFile[1].end_date.t = "date") =>
        LET end_day == contractsFile[1].end_date.d
            status == resp.contracts[1].status
        IN  /\ (end_day = now.day) => status = expiring
            /\ (end_day = now.day - 1) => status = expired
            /\ (end_day = now.day + 30) => status = expiring
            /\ (end_day = now.day + 31) => status = active

\* C3: search and the chat briefing use the status a list would report at
\* that moment: a search returns the contracts that match the term in what
\* GET /api/contracts reports, and each block of the briefing carries the
\* status GET /api/contracts reports for its contract
C3_NoStoredStatusAsTruth ==
    [][/\ (Served /\ req'.op = "search" /\ resp'.code = 200) =>
            LET reported == MapStatus(contractsFile, now)
                expected == SearchResults(reported, toLowerCase(Val(req'.query)))
            IN  /\ Len(resp'.results) = Len(expected)
                /\ \A i \in 1..Len(expected) :
                      resp'.results[i].id = expected[i].id
       /\ (Served /\ req'.op = "chat") =>
            LET reported == MapStatus(contractsFile, now)
            IN  \A i \in 1..Len(reported) :
                    Val(prompt').system.blocks[i].status = reported[i].status
      ]_vars

\* C4: no two contracts of the store have the same id
C4_UniqueIds ==
    \A i, j \in 1..Len(contractsFile) :
        i # j => contractsFile[i].id # contractsFile[j].id

\* C5: a successful create returns a contract whose id is 1 for an empty
\* store and else one more than the largest id in the store, and the store
\* becomes the old store followed by that contract
C5_CreateAssignsMaxPlusOne ==
    [][(Served /\ req'.op = "create" /\ resp'.code = 200) =>
          /\ IF contractsFile = <<>> THEN resp'.contract.id = 1
             ELSE /\ (resp'.contract.id - 1) \in Ids(contractsFile)
                  /\ \A x \in Ids(contractsFile) : x < resp'.contract.id
          /\ contractsFile' = contractsFile \o <<resp'.contract>>
      ]_vars

\* C5 witness: a create added a second contract to a store whose only
\* contract had id 2, and gave it id 3
C5_Witness ==
    /\ req.op = "create"
    /\ resp.code = 200
    /\ Len(contractsFile) = 2
    /\ contractsFile[1].id = 2
    /\ contractsFile[2] = resp.contract
    /\ resp.contract.id = 3

\* C6: a successful create returns an id greater than every id a create
\* has returned before
C6_IdsNeverReused ==
    [][(Served /\ req'.op = "create" /\ resp'.code = 200) =>
          \A x \in issued : x < resp'.contract.id
      ]_vars

\* C7: a create whose body lacks a required field, or carries it empty, is
\* answered 400 and neither changes nor writes the contract store
C7_InvalidCreateRejected ==
    [][(Served /\ req'.op = "create"
          /\ \E f \in RequiredFields :
                req'.body[f] = Absent \/ req'.body[f] = Some(EmptyOf(f))) =>
          /\ resp'.code = 400
          /\ contractsFile' = contractsFile
          /\ wrote' = {}
      ]_vars

\* C7 witness: a create without end_date was refused on a non-empty store
C7_Witness ==
    /\ req.op = "create"
    /\ req.body.end_date = Absent
    /\ resp.code = 400
    /\ Len(contractsFile) = 1
    /\ wrote = {}

\* C8: a get of the id a create has just returned gives back every
\* submitted field with the submitted value, and the status derived from
\* end_date at the time of the get
C8_CreateGetRoundTrip ==
    [][(/\ req.op = "create" /\ resp.code = 200
        /\ Served /\ req'.op = "get"
        /\ IsNumber(req'.id) /\ IdNumber(req'.id) = resp.contract.id) =>
          /\ resp'.code = 200
          /\ \A f \in {"title", "company", "client_name", "contract_type",
                       "start_date", "end_date", "salary", "notes"} :
                Has(req.body[f]) => resp'.contract[f] = Val(req.body[f])
          /\ resp'.contract.status = StatusOf(Val(req.body.end_date), now)
      ]_vars

\* C9: a delete of an id that no contract has answers the success
\* response and leaves the contracts as they were
C9_DeleteAbsentIsNoOp ==
    [][(Served /\ req'.op = "delete"
          /\ ~(IsNumber(req'.id) /\ IdNumber(req'.id) \in Ids(contractsFile))) =>
          /\ resp' = [code |-> 200, message |-> "Contract deleted"]
          /\ contractsFile' = contractsFile
      ]_vars

\* C9 witness: a delete of an id no contract has was answered with the
\* success response, and the store still holds its contract
C9_Witness ==
    /\ req.op = "delete"
    /\ resp = [code |-> 200, message |-> "Contract deleted"]
    /\ Len(contractsFile) = 1
    /\ ~(IsNumber(req.id) /\ IdNumber(req.id) \in Ids(contractsFile))

\* C10: an update of a present id stores and returns the first contract
\* with that id, with each field of the body taken from the body, every
\* other field kept, and the status derived from the resulting end_date;
\* the other contracts stay; an update of an absent id answers 404 and
\* leaves the store as it was
C10_UpdateMergesShallowly ==
    [][(Served /\ req'.op = "update") =>
          IF IsNumber(req'.id) /\ IdNumber(req'.id) \in Ids(contractsFile)
             THEN LET index == CHOOSE i \in 1..Len(contractsFile) :
                                 /\ contractsFile[i].id = IdNumber(req'.id)
                                 /\ \A j \in 1..(i - 1) :
                                       contractsFile[j].id # IdNumber(req'.id)
                      old == contractsFile[index]
                      new == resp'.contract
                  IN  /\ resp'.code = 200
                      /\ Len(contractsFile') = Len(contractsFile)
                      /\ contractsFile'[index] = new
                      /\ \A i \in 1..Len(contractsFile) :
                            i # index => contractsFile'[i] = contractsFile[i]
                      /\ \A f \in BodyFields \ {"status"} :
                            new[f] = IF Has(req'.body[f])
                                        THEN Val(req'.body[f]) ELSE old[f]
                      /\ new.status =
                            IF new.end_date.t = "date"
                               THEN ExpectedStatus(new.end_date.d, now)
                            ELSE active
             ELSE /\ resp'.code = 404
                  /\ contractsFile' = contractsFile
      ]_vars

\* C10 witness: an update whose body named end_date and status 'active'
\* returned the contract with that end_date and the status 'expired'
C10_Witness ==
    /\ req.op = "update"
    /\ resp.code = 200
    /\ Has(req.body.end_date)
    /\ req.body.status = Some(active)
    /\ resp.contract.end_date = Val(req.body.end_date)
    /\ resp.contract.status = expired
    /\ Len(contractsFile) = 2

\* C11: an update leaves the created_at of every contract as it was
C11_CreatedAtImmutable ==
    [][(Served /\ req'.op = "update") =>
          /\ Len(contractsFile') = Len(contractsFile)
          /\ \A i \in 1..Len(contractsFile) :
                contractsFile'[i].created_at = contractsFile[i].created_at
      ]_vars

\* t occurs in s as a run of consecutive characters
Contains(s, t) ==
    \E k \in 0..(Len(s) - Len(t)) : \A j \in 1..Len(t) : s[k + j] = t[j]

\* C12: a search with a query returns, in store order, exactly the
\* contracts whose lower-cased title, company, client_name or status (as
\* the record carries it) contains the lower-cased query, and count is the
\* number of results
C12_SearchExact ==
    [][(Served /\ req'.op = "search" /\ Has(req'.query)) =>
          LET term == toLowerCase(Val(req'.query))
          IN  /\ resp'.code = 200
              /\ resp'.results =
                    SelectSeq(contractsFile,
                              LAMBDA c :
                                  \E f \in {"title", "company", "client_name",
                                            "status"} :
                                      Contains(toLowerCase(c[f]), term))
              /\ resp'.count = Len(resp'.results)
      ]_vars

\* C12 witness: the query 'qA' found the contract titled 'Qa' and left out
\* the other contract of the store
C12_Witness ==
    /\ req.op = "search"
    /\ req.query = Some(<<"q", "A">>)
    /\ Len(contractsFile) = 2
    /\ resp.count = 1
    /\ resp.results[1].title = <<"Q", "a">>

\* the status derived for the i-th contract by GET /api/alerts, which
\* read the clock at clock[2i - 1] for it
DerivedAt(contracts, clock, i) ==
    IF contracts[i].end_date.t = "date"
       THEN ExpectedStatus(contracts[i].end_date.d, clock[2 * i - 1])
    ELSE active

\* C13: the alerts are, in store order, one for each contract whose
\* derived status is expiring or expired and none for the others; each
\* carries the id, title, company, end_date and derived status of its
\* contract; count is the number of alerts
C13_AlertsExact ==
    [][(Served /\ req'.op = "alerts") =>
          LET n == Len(contractsFile)
              due == SelectSeq([i \in 1..n |-> i],
                               LAMBDA i :
                                   DerivedAt(contractsFile, req'.clock, i)
                                       \in {expiring, expired})
          IN  /\ resp'.code = 200
              /\ resp'.count = Len(resp'.alerts)
              /\ Len(resp'.alerts) = Len(due)
              /\ \A k \in 1..Len(due) :
                    LET c == contractsFile[due[k]]
                        a == resp'.alerts[k]
                    IN  /\ a.contract_id = c.id
                        /\ a.title = c.title
                        /\ a.company = c.company
                        /\ a.end_date = c.end_date
                        /\ a.status = DerivedAt(contractsFile, req'.clock, due[k])
      ]_vars

\* C13 witness: of two contracts the first is active and the second is
\* not, and the only alert is for the second
C13_Witness ==
    /\ req.op = "alerts"
    /\ Len(contractsFile) = 2
    /\ resp.count = 1
    /\ resp.alerts[1].contract_id = contractsFile[2].id
    /\ resp.alerts[1].status \in {expiring, expired}

\* C19: in every alert the status is expired exactly when days_remaining
\* is negative and expiring exactly when it is in 0..30
C19_DaysAgreeWithStatus ==
    [][(Served /\ req'.op = "alerts") =>
          \A k \in 1..Len(resp'.alerts) :
              LET a == resp'.alerts[k]
              IN  /\ (a.status = expired) <=> (a.days_remaining < 0)
                  /\ (a.status = expiring) <=>
                        (0 <= a.days_remaining /\ a.days_remaining <= 30)
      ]_vars

\* C14: a successful chat request adds its exchange, with the message and
\* the reply as they were, at the end of the session its chat_id names
\* (creating the session if there is none) and leaves every earlier
\* exchange and every other session as they were; no other request
\* changes a session; a history read returns the session as stored
C14_SessionsAppendOnly ==
    [][/\ (Served /\ req'.op = "chat" /\ resp'.code = 200) =>
            LET id == resp'.chat_id
                before == IF id \in DOMAIN chatHistoryFile
                             THEN chatHistoryFile[id] ELSE <<>>
                after == chatHistoryFile'[id]
            IN  /\ (Has(req'.body.chat_id) /\ Val(req'.body.chat_id) # "") =>
                      id = Val(req'.body.chat_id)
                /\ DOMAIN chatHistoryFile' = (DOMAIN chatHistoryFile) \cup {id}
                /\ Len(after) = Len(before) + 1
                /\ SubSeq(after, 1, Len(before)) = before
                /\ after[Len(after)].user = req'.body.message
                /\ after[Len(after)].bot = resp'.response
                /\ \A k \in (DOMAIN chatHistoryFile) \ {id} :
                      chatHistoryFile'[k] = chatHistoryFile[k]
       /\ (Served /\ ~(req'.op = "chat" /\ resp'.code = 200)) =>
            chatHistoryFile' = chatHistoryFile
       /\ (Served /\ req'.op = "history"
             /\ req'.chat_id \in DOMAIN chatHistoryFile) =>
            /\ resp'.code = 200
            /\ resp'.messages = chatHistoryFile[req'.chat_id]
      ]_vars

\* C14 witness: after 'hi' and then 'yo' were sent under s1, the history of
\* s1 is read as those two exchanges in that order
C14_Witness ==
    /\ req.op = "history"
    /\ req.chat_id = "s1"
    /\ resp.code = 200
    /\ Len(resp.messages) = 2
    /\ resp.messages[1].user = "hi" /\ resp.messages[1].bot = "r2"
    /\ resp.messages[2].user = "yo" /\ resp.messages[2].bot = "r1"

\* C15: a chat request whose call of the inference endpoint fails or is
\* answered with a non-success status gets 500 with the hint to start the
\* service, and nothing is added to or written in the chat session store
C15_UpstreamFailure ==
    [][(Served /\ req'.op = "chat"
          /\ req'.upstream \in {"unreachable", "notok"}) =>
          /\ resp'.code = 500
          /\ resp'.error =
                "Error communicating with Ollama. Make sure Ollama is running with: ollama serve"
          /\ chatHistoryFile' = chatHistoryFile
          /\ wrote' = {}
      ]_vars

\* C15 witness: the endpoint was unreachable for a request under a chat id
\* that has no session, while another session exists; no session was made
C15_Witness ==
    /\ req.op = "chat"
    /\ req.upstream = "unreachable"
    /\ resp.code = 500
    /\ req.body.chat_id = Some("s1")
    /\ DOMAIN chatHistoryFile = {"0"}

\* C17: a create, update, delete or chat request served while writes fail
\* is not answered with success
C17_WriteFailureFailsRequest ==
    [][(Served /\ req'.op \in {"create", "update", "delete", "chat"}
          /\ ~disk.w) =>
          resp'.code # 200
      ]_vars

\* C18: a request served while a store cannot be read is answered as if
\* that store held its empty default, and what it writes back is built
\* from the empty default
C18_ReadFailureSwallowed ==
    [][/\ (Served /\ ~disk.rc) =>
            /\ (req'.op = "list") => resp' = [code |-> 200, contracts |-> <<>>]
            /\ (req'.op = "get") => resp'.code = 404
            /\ (req'.op = "update") =>
                  resp'.code = 404 /\ contractsFile' = contractsFile
            /\ (req'.op = "search" /\ Has(req'.query)) =>
                  resp' = [code |-> 200, results |-> <<>>, count |-> 0]
            /\ (req'.op = "alerts") =>
                  resp' = [code |-> 200, alerts |-> <<>>, count |-> 0]
            /\ (req'.op = "create") =>
                  IF disk.w
                     THEN /\ resp'.code = 200
                          /\ resp'.contract.id = 1
                          /\ contractsFile' = <<resp'.contract>>
                     ELSE resp'.code = 500 /\ contractsFile' = contractsFile
            /\ (req'.op = "delete") =>
                  /\ resp'.code = 200
                  /\ contractsFile' = IF disk.w THEN <<>> ELSE contractsFile
            /\ (req'.op = "chat") => Val(prompt').system.total = 0
       /\ (Served /\ ~disk.rh) =>
            /\ (req'.op = "history") => resp'.code = 404
            /\ (req'.op = "chat" /\ req'.upstream = "ok") =>
                  /\ resp'.code = 200
                  /\ IF disk.w
                        THEN /\ DOMAIN chatHistoryFile' = {resp'.chat_id}
                             /\ Len(chatHistoryFile'[resp'.chat_id]) = 1
                        ELSE chatHistoryFile' = chatHistoryFile
      ]_vars

\* C18 witness: contracts.json could not be read when a delete of an id
\* that names no contract was served; the contract that had been created
\* before is gone from the store
C18_Witness ==
    /\ req.op = "delete"
    /\ req.id = <<"x">>
    /\ resp.code = 200
    /\ ~disk.rc /\ disk.w
    /\ issued = {1}
    /\ wrote = {"contracts"}
    /\ contractsFile = <<>>

\* C20: listing, fetching, searching, alerting and reading a chat session
\* write neither store, and outside a create or an update every stored
\* contract is one that was stored before, status included
C20_ReadOnlyNeverWrites ==
    [][/\ (Served /\ req'.op \in {"list", "get", "search", "alerts", "history"}) =>
            /\ contractsFile' = contractsFile
            /\ chatHistoryFile' = chatHistoryFile
            /\ wrote' = {}
       /\ ~(Served /\ req'.op \in {"create", "update"}) =>
            \A i \in DOMAIN contractsFile' :
                \E j \in DOMAIN contractsFile : contractsFile'[i] = contractsFile[j]
      ]_vars

\* C20 witness: a listing has reported a status that differs from the
\* stored one, and nothing was written
C20_Witness ==
    /\ req.op = "list"
    /\ resp.code = 200
    /\ wrote = {}
    /\ contractsFile # <<>>
    /\ resp.contracts[1].status # contractsFile[1].status

\* the number of exchanges a chat store holds, over all its sessions
RECURSIVE ExchangesIn(_, _)
ExchangesIn(history, ids) ==
    IF ids = {} THEN 0
    ELSE LET id == CHOOSE k \in ids : TRUE
         IN  Len(history[id]) + ExchangesIn(history, ids \ {id})

\* request a and request b, on the same store, both answered with success,
\* each read the store before the other wrote it
Overlapped(a, b) ==
    /\ a # b
    /\ Done(a) /\ Done(b)
    /\ inflight[a].op = inflight[b].op
    /\ inflight[a].resp.code = 200 /\ inflight[b].resp.code = 200
    /\ a \notin inflight[b].sawWritten
    /\ b \notin inflight[a].sawWritten

\* request b is the last one that has written its store
WroteLast(b) ==
    \A c \in Finished :
        (c # b /\ inflight[c].op = inflight[b].op /\ inflight[c].resp.code = 200)
            => c \in inflight[b].doneAtWrite

\* C16: when two requests on the same store have each read it before the
\* other wrote, and one of them wrote last of all, the store is what that
\* one read plus its own change alone, and it holds fewer entries than
\* requests were answered with success
C16_LostUpdate ==
    \A a, b \in DOMAIN inflight :
        (Overlapped(a, b) /\ WroteLast(b)) =>
            IF inflight[b].op = "create"
               THEN /\ contractsFile =
                          Append(inflight[b].snapshot, inflight[b].resp.contract)
                    /\ Len(contractsFile) <
                          Cardinality({c \in Finished :
                                          /\ inflight[c].op = "create"
                                          /\ inflight[c].resp.code = 200})
               ELSE /\ chatHistoryFile =
                          AppendExchange(inflight[b].snapshot,
                                         inflight[b].resp.chat_id,
                                         [timestamp |-> inflight[b].resp.timestamp,
                                          user |-> inflight[b].body.message,
                                          bot |-> inflight[b].body.bot])
                    /\ ExchangesIn(chatHistoryFile, DOMAIN chatHistoryFile) <
                          Cardinality({c \in Finished :
                                          /\ inflight[c].op = "chat"
                                          /\ inflight[c].resp.code = 200})

\* C16 witness: two creates with different bodies were both answered with
\* success after each had read the empty store; the store holds only the
\* contract of the one that wrote last
C16_Witness ==
    /\ Len(inflight) = 2
    /\ Overlapped(1, 2) /\ WroteLast(2)
    /\ inflight[1].op = "create"
    /\ inflight[1].body = BodyFull /\ inflight[2].body = BodyMin
    /\ contractsFile = <<inflight[2].resp.contract>>
    /\ inflight[1].resp.contract.title # inflight[2].resp.contract.title

====
